---- MODULE Spec2Model ----
(***************************************************************************)
(* State-machine model of the AirNow scraper (airnow_scraper.py).          *)
(* Python strings are sequences of one-character strings, so that          *)
(* str.upper, str.split, str.format and concatenation are computed.        *)
(***************************************************************************)
EXTENDS Integers, Sequences, FiniteSets, TLC

(* ---------------- bounds of the model ---------------- *)
MaxStates == 2
MaxSites == 2
MaxDay == 2
MaxRuns == 2
NumYears == 2
MaxRejects == 1

(* ---------------- module constants ---------------- *)
POLLUTANTS ==
    (<<"C", "O">> :> <<"4", "2", "1", "0", "1">>)
    @@ (<<"P", "b">> :> <<"1", "2", "1", "2", "8", ",", "1", "4", "1", "2", "9", ",", "8", "5", "1", "2", "9">>)
    @@ (<<"N", "O", "2">> :> <<"4", "2", "6", "0", "2">>)
    @@ (<<"O", "3">> :> <<"4", "4", "2", "0", "1">>)
    @@ (<<"P", "M", "1", "0">> :> <<"8", "1", "1", "0", "2">>)
    @@ (<<"P", "M", "2", ".", "5">> :> <<"8", "8", "1", "0", "1", ",", "8", "8", "5", "0", "2">>)
    @@ (<<"S", "O", "2">> :> <<"4", "2", "4", "0", "1">>)

STATE_FIPS_CODES ==
    (<<"A", "L">> :> <<"0", "1">>)
    @@ (<<"A", "K">> :> <<"0", "2">>)
    @@ (<<"A", "Z">> :> <<"0", "4">>)
    @@ (<<"A", "R">> :> <<"0", "5">>)
    @@ (<<"C", "A">> :> <<"0", "6">>)
    @@ (<<"C", "O">> :> <<"0", "8">>)
    @@ (<<"C", "T">> :> <<"0", "9">>)
    @@ (<<"D", "E">> :> <<"1", "0">>)
    @@ (<<"D", "C">> :> <<"1", "1">>)
    @@ (<<"F", "L">> :> <<"1", "2">>)
    @@ (<<"G", "A">> :> <<"1", "3">>)
    @@ (<<"H", "I">> :> <<"1", "5">>)
    @@ (<<"I", "D">> :> <<"1", "6">>)
    @@ (<<"I", "L">> :> <<"1", "7">>)
    @@ (<<"I", "N">> :> <<"1", "8">>)
    @@ (<<"I", "A">> :> <<"1", "9">>)
    @@ (<<"K", "S">> :> <<"2", "0">>)
    @@ (<<"K", "Y">> :> <<"2", "1">>)
    @@ (<<"L", "A">> :> <<"2", "2">>)
    @@ (<<"M", "E">> :> <<"2", "3">>)
    @@ (<<"M", "D">> :> <<"2", "4">>)
    @@ (<<"M", "A">> :> <<"2", "5">>)
    @@ (<<"M", "I">> :> <<"2", "6">>)
    @@ (<<"M", "N">> :> <<"2", "7">>)
    @@ (<<"M", "S">> :> <<"2", "8">>)
    @@ (<<"M", "O">> :> <<"2", "9">>)
    @@ (<<"M", "T">> :> <<"3", "0">>)
    @@ (<<"N", "E">> :> <<"3", "1">>)
    @@ (<<"N", "V">> :> <<"3", "2">>)
    @@ (<<"N", "H">> :> <<"3", "3">>)
    @@ (<<"N", "J">> :> <<"3", "4">>)
    @@ (<<"N", "M">> :> <<"3", "5">>)
    @@ (<<"N", "Y">> :> <<"3", "6">>)
    @@ (<<"N", "C">> :> <<"3", "7">>)
    @@ (<<"N", "D">> :> <<"3", "8">>)
    @@ (<<"O", "H">> :> <<"3", "9">>)
    @@ (<<"O", "K">> :> <<"4", "0">>)
    @@ (<<"O", "R">> :> <<"4", "1">>)
    @@ (<<"P", "A">> :> <<"4", "2">>)
    @@ (<<"R", "I">> :> <<"4", "4">>)
    @@ (<<"S", "C">> :> <<"4", "5">>)
    @@ (<<"S", "D">> :> <<"4", "6">>)
    @@ (<<"T", "N">> :> <<"4", "7">>)
    @@ (<<"T", "X">> :> <<"4", "8">>)
    @@ (<<"U", "T">> :> <<"4", "9">>)
    @@ (<<"V", "T">> :> <<"5", "0">>)
    @@ (<<"V", "A">> :> <<"5", "1">>)
    @@ (<<"W", "A">> :> <<"5", "3">>)
    @@ (<<"W", "V">> :> <<"5", "4">>)
    @@ (<<"W", "I">> :> <<"5", "5">>)
    @@ (<<"W", "Y">> :> <<"5", "6">>)

\* the dict is built without swapping key and value
STATE_FIPS_CODES_REVERSED_NotSwapped == STATE_FIPS_CODES

STATE_FIPS_CODES_REVERSED ==
    [value \in {STATE_FIPS_CODES[key] : key \in DOMAIN STATE_FIPS_CODES} |->
        CHOOSE key \in DOMAIN STATE_FIPS_CODES : STATE_FIPS_CODES[key] = value]

DOWNLOAD_CHUNK_SIZE == 8192

DEFAULT_SLEEP_BETWEEN_REQUESTS == 5

(* ---------------- Python string operations ---------------- *)
LowerLetters ==
    <<"a", "b", "c", "d", "e", "f", "g", "h", "i", "j", "k", "l", "m",
      "n", "o", "p", "q", "r", "s", "t", "u", "v", "w", "x", "y", "z">>

UpperLetters ==
    <<"A", "B", "C", "D", "E", "F", "G", "H", "I", "J", "K", "L", "M",
      "N", "O", "P", "Q", "R", "S", "T", "U", "V", "W", "X", "Y", "Z">>

DigitChars == <<"0", "1", "2", "3", "4", "5", "6", "7", "8", "9">>

\* one character of str.upper()
UpperChar(c) ==
    IF \E i \in DOMAIN LowerLetters : LowerLetters[i] = c
    THEN UpperLetters[CHOOSE i \in DOMAIN LowerLetters : LowerLetters[i] = c]
    ELSE c

\* str.upper()
Upper(str) == [i \in DOMAIN str |-> UpperChar(str[i])]

\* str.split(",")[0]: the text before the first comma
RECURSIVE FirstField(_)
FirstField(str) ==
    IF str = <<>> \/ Head(str) = ","
    THEN <<>>
    ELSE <<Head(str)>> \o FirstField(Tail(str))

\* "{}".format(n) for a non-negative integer
RECURSIVE Str(_)
Str(n) ==
    IF n < 10
    THEN <<DigitChars[n + 1]>>
    ELSE Str(n \div 10) \o <<DigitChars[(n % 10) + 1]>>

\* zero padding of strftime fields (%Y is 4 wide, %m and %d are 2 wide)
RECURSIVE ZeroPad(_, _)
ZeroPad(str, width) ==
    IF Len(str) >= width THEN str ELSE ZeroPad(<<"0">> \o str, width)

\* datetime.strftime("%Y%m%d")
Strftime(dt) ==
    ZeroPad(Str(dt.year), 4) \o ZeroPad(Str(dt.month), 2) \o ZeroPad(Str(dt.day), 2)

IsDigit(c) == \E i \in DOMAIN DigitChars : DigitChars[i] = c

DigitValue(c) == (CHOOSE i \in DOMAIN DigitChars : DigitChars[i] = c) - 1

RECURSIVE ToInt(_)
ToInt(str) ==
    IF str = <<>> THEN 0
    ELSE 10 * ToInt(SubSeq(str, 1, Len(str) - 1)) + DigitValue(str[Len(str)])

\* dateutil.parser.parse on the date strings of the model: an ISO date
\* YYYY-MM-DD gives a datetime, anything else raises ValueError
IsIsoDate(str) ==
    /\ Len(str) = 10
    /\ \A i \in {1, 2, 3, 4, 6, 7, 9, 10} : IsDigit(str[i])
    /\ str[5] = "-"
    /\ str[8] = "-"

ParseDate(str) ==
    [year |-> ToInt(SubSeq(str, 1, 4)),
     month |-> ToInt(SubSeq(str, 6, 7)),
     day |-> ToInt(SubSeq(str, 9, 10))]

(* ---------------- state ---------------- *)
VARIABLES
    pc,           \* position of the program
    args,         \* arguments of the entry point (argparse namespace / call arguments)
    scraper,      \* the Scraper object
    dirExists,    \* os.path.isdir(output_directory)
    fs,           \* files of the output directory: file name -> content
    fs0,          \* the files that existed when scrape was invoked
    today,        \* the day of the month datetime.datetime.now() is in
    run,          \* number of scrape invocations so far
    si,           \* index of the current state in the states list
    sites,        \* result of list_monitoring_sites for the current state
    mi,           \* index of the current site in sites
    year,         \* loop variable of the year loop
    output_file,  \* local output_file of get_data
    url,          \* local url of get_data
    error,        \* exception that ended the program, "" if none
    rejects,      \* number of answers of the AirNow script without the marker so far
    log,          \* requests, pauses, writes and messages of the current run
    merge,        \* the run of join_data over the output directory of the scraper
    other,        \* a second invocation of scrape on the same output directory
    registry      \* a lookup in the tables of the module

vars ==
    <<pc, args, scraper, dirExists, fs, fs0, today, run, si, sites, mi, year,
      output_file, url, error, rejects, log, merge, other, registry>>

(* ---------------- values ---------------- *)
NoUrl == [poll |-> <<>>, year |-> 0, site |-> <<>>]

\* one entry of the log: op names the step, the other fields describe it
Ev(op) ==
    [op |-> op, key |-> <<>>, year |-> 0, file |-> <<>>, url |-> NoUrl,
     existed |-> FALSE, status |-> "", n |-> 0]

\* datetime.datetime.now()
Now == [year |-> 2020, month |-> 6, day |-> today]

\* class AqsSite
AqsSite(site_data) ==
    [site_id |-> site_data.state_code \o site_data.county_code \o site_data.site_number,
     json |-> site_data]

\* join_data is not running
NoMerge ==
    [pc |-> "idle", output_directory |-> "", root |-> <<>>, elsewhere |-> <<>>,
     error |-> ""]

\* there is no second invocation
NoOther ==
    [pc |-> "idle", si |-> 0, sites |-> <<>>, mi |-> 0, year |-> 0,
     output_file |-> <<>>, url |-> NoUrl, error |-> "", log |-> <<>>]

\* no lookup in the tables is going on
NoLookup == [pc |-> "idle", given |-> <<>>, found |-> <<>>, back |-> <<>>]

(* ---------------- inputs ---------------- *)
PM25 == <<"P", "M", "2", ".", "5">>

PollutantArgs == {PM25, <<"p", "m", "2", ".", "5">>, <<"P", "b">>, <<"X", "X">>}

TodayArg == <<"t", "o", "d", "a", "y">>

IsoDateArg(y) == ZeroPad(Str(y), 4) \o <<"-", "0", "1", "-", "0", "1">>

DateArgs ==
    {TodayArg, <<"s", "o", "o", "n">>} \cup {IsoDateArg(y) : y \in (2021 - NumYears) .. 2019}

\* the states lists of the command lines: up to MaxStates states, given as
\* FIPS code or as abbreviation, one state twice or two states in turn, and
\* the same lists with a last string that is no state
StatesArgs ==
    {[i \in 1 .. k |-> <<"0", "1">>] : k \in 0 .. MaxStates}
    \cup {[i \in 1 .. k |-> IF i % 2 = 1 THEN <<"0", "1">> ELSE <<"a", "k">>] :
            k \in 0 .. MaxStates}
    \cup {[i \in 1 .. k |-> IF i = k THEN <<"z", "z">> ELSE <<"0", "1">>] :
            k \in 1 .. MaxStates}

\* the states lists of a direct call of scrape: FIPS codes
StatesLists ==
    {[i \in 1 .. k |-> <<"0", "1">>] : k \in 0 .. MaxStates}
    \cup {[i \in 1 .. k |-> IF i % 2 = 1 THEN <<"0", "1">> ELSE <<"0", "2">>] :
            k \in 0 .. MaxStates}

\* the Data block of the monitors/byState answer for a state: n monitors
MonitorData(state, n) ==
    [i \in 1 .. n |->
        [state_code |-> state,
         county_code |-> <<"0", "0", "1">>,
         site_number |-> ZeroPad(Str(i), 4)]]

\* the JSON answers of the AQS API to a monitors/byState request
LookupResponses(state) ==
    {[Header |-> <<[status |-> "Failed"]>>, Data |-> MonitorData(state, n)] : n \in {0, MaxSites}}
    \cup {[Header |-> <<[status |-> "Success"]>>, Data |-> MonitorData(state, n)] :
            n \in 0 .. MaxSites}

\* the data link the AirNow script prepares for a request
DataLink(poll, y, site_id) == [poll |-> poll, year |-> y, site |-> site_id]

\* the HTML answers of the AirNow script: with the marker phrase and a link, or without
BrokerResponses(poll, y, site_id) ==
    {[marker |-> TRUE, href |-> DataLink(poll, y, site_id)],
     [marker |-> FALSE, href |-> NoUrl]}

\* the outcomes of the streamed download: a non-2xx status, a complete body,
\* or a connection that breaks in the middle of the body
DownloadResponses == {"http_error", "complete", "broken"}

(* ---------------- initial states ---------------- *)
\* the command lines given to main, without -v; main builds the Scraper
\* without use_compression, which is then the default of Scraper.__init__
\* (True)
MainArgs ==
    [pollutant : PollutantArgs,
     start_date : DateArgs,
     end_date : DateArgs,
     states : StatesArgs,
     verbose : {FALSE},
     use_compression : {TRUE}]

\* the arguments of a direct use of the class: Scraper(...).scrape(...)
ApiArgs ==
    [pollutant : {PM25, <<"X", "X">>},
     start_date : {ParseDate(IsoDateArg(y)) : y \in (2021 - NumYears) .. 2019}
                    \cup {[year |-> 2020, month |-> 6, day |-> 1]},
     end_date : {ParseDate(IsoDateArg(y)) : y \in (2021 - NumYears) .. 2019}
                    \cup {[year |-> 2020, month |-> 6, day |-> 1]},
     states : StatesLists,
     verbose : {TRUE},
     use_compression : BOOLEAN]

Init ==
    /\ \/ pc = "main" /\ args \in MainArgs
       \/ pc = "api" /\ args \in ApiArgs
    /\ scraper = [constructed |-> FALSE, verbose |-> FALSE, use_compression |-> FALSE]
    /\ dirExists = FALSE
    /\ fs = <<>>
    /\ fs0 = <<>>
    /\ today = 1
    /\ run = 0
    /\ si = 0
    /\ sites = <<>>
    /\ mi = 0
    /\ year = 0
    /\ output_file = <<>>
    /\ url = NoUrl
    /\ error = ""
    /\ rejects = 0
    /\ log = <<>>
    /\ merge = NoMerge
    /\ other = NoOther
    /\ registry = NoLookup

(* ---------------- Scraper.__init__ and main ---------------- *)
\* Scraper.__init__: stores the options and creates the output directory
ScraperInit(verbose, use_compression) ==
    /\ scraper' = [constructed |-> TRUE, verbose |-> verbose,
                   use_compression |-> use_compression]
    /\ dirExists' = TRUE

\* the call of scraper.scrape: the loop over the states starts
ScrapeBegin ==
    /\ pc' = "region"
    /\ si' = 1
    /\ run' = run + 1
    /\ fs0' = fs
    /\ log' = <<>>
    /\ error' = ""
    /\ sites' = <<>>
    /\ mi' = 0
    /\ year' = 0
    /\ output_file' = <<>>
    /\ url' = NoUrl

\* the Scraper is constructed before the arguments are validated
Reject_AfterConstruction(message) ==
    /\ pc' = "rejected"
    /\ error' = message
    /\ scraper' = [scraper EXCEPT !.constructed = TRUE]
    /\ dirExists' = TRUE
    /\ UNCHANGED <<args, fs, fs0, today, run, si, sites, mi, year, output_file, url,
                   rejects, log>>

\* the program ends with an exception before the Scraper exists
Reject(message) ==
    /\ pc' = "rejected"
    /\ error' = message
    /\ UNCHANGED <<args, scraper, dirExists, fs, fs0, today, run, si, sites, mi,
                   year, output_file, url, rejects, log>>

PollutantOk(a) == Upper(a.pollutant) \in DOMAIN POLLUTANTS

DateOk(dt_str) == dt_str = TodayArg \/ IsIsoDate(dt_str)

ConvertDate(dt_str) == IF dt_str = TodayArg THEN Now ELSE ParseDate(dt_str)

valid_fips_codes == {STATE_FIPS_CODES[key] : key \in DOMAIN STATE_FIPS_CODES}

StateOk(state) ==
    state \in valid_fips_codes \/ Upper(state) \in DOMAIN STATE_FIPS_CODES

ConvertState(state) ==
    IF state \in valid_fips_codes THEN state ELSE STATE_FIPS_CODES[Upper(state)]

\* main: validation of the arguments, then Scraper(...) and scraper.scrape(...)
Main ==
    /\ pc = "main"
    /\ IF ~PollutantOk(args)
       THEN Reject("invalid pollutant")
       ELSE IF ~DateOk(args.start_date) \/ ~DateOk(args.end_date)
       THEN Reject("invalid date string")
       ELSE IF \E i \in DOMAIN args.states : ~StateOk(args.states[i])
       THEN Reject("could not understand state")
       ELSE /\ args' = [args EXCEPT
                          !.pollutant = Upper(args.pollutant),
                          !.start_date = ConvertDate(args.start_date),
                          !.end_date = ConvertDate(args.end_date),
                          !.states = [i \in DOMAIN args.states |->
                                        ConvertState(args.states[i])]]
            /\ ScraperInit(args.verbose, TRUE)
            /\ ScrapeBegin
            /\ UNCHANGED <<fs, today, rejects>>
    /\ UNCHANGED <<merge, other, registry>>

\* direct use of the class: Scraper(...) followed by scrape(...)
Construct ==
    /\ pc = "api"
    /\ ScraperInit(args.verbose, args.use_compression)
    /\ ScrapeBegin
    /\ UNCHANGED <<args, fs, today, rejects>>
    /\ UNCHANGED <<merge, other, registry>>

(* ---------------- Scraper ---------------- *)
\* self.print: a message appears only when verbose
Echo(op) == IF scraper.verbose THEN <<Ev(op)>> ELSE <<>>

\* a sleep that returns at once
Sleep_Skipped == <<>>

\* self.sleep
Sleep == <<Ev("sleep")>>

\* a test that looks for the bare file name outside the output directory
IsFile_OutsideDirectory(file) == FALSE

\* os.path.isfile
IsFile(file) == file \in DOMAIN fs

\* an uncaught exception ends the program
Raise(exception) ==
    /\ pc' = "aborted"
    /\ error' = exception

\* loop control of scrape: the position after the last year of site m_i
AfterSite(s_i, m_i, n_sites) ==
    IF m_i < n_sites
    THEN [pc |-> "monitor", si |-> s_i, mi |-> m_i + 1, year |-> 0]
    ELSE [pc |-> "region", si |-> s_i + 1, mi |-> 0, year |-> 0]

\* range(start_date.year, end_date.year): the end year is left out
AfterYear_ExclusiveEnd(y) ==
    IF y + 1 < args.end_date.year
    THEN [pc |-> "year", si |-> si, mi |-> mi, year |-> y + 1]
    ELSE AfterSite(si, mi, Len(sites))

\* loop control of scrape: the position after get_data returned for year y,
\* in range(start_date.year, end_date.year + 1)
AfterYear(y) ==
    IF y + 1 < args.end_date.year + 1
    THEN [pc |-> "year", si |-> si, mi |-> mi, year |-> y + 1]
    ELSE AfterSite(si, mi, Len(sites))

Goto(pos) ==
    /\ pc' = pos.pc
    /\ si' = pos.si
    /\ mi' = pos.mi
    /\ year' = pos.year

\* no membership test: POLLUTANTS[pollutant] raises KeyError
UnknownPollutant_KeyError ==
    /\ pc' = "aborted"
    /\ error' = "KeyError"
    /\ UNCHANGED <<si, mi, year, sites, log>>

\* list_monitoring_sites for a pollutant that is no key of POLLUTANTS:
\* a message on standard output and an empty list, no request
UnknownPollutant ==
    /\ sites' = <<>>
    /\ Goto(AfterSite(si, 0, 0))
    /\ UNCHANGED <<log, error>>

\* the status compared with a word the API does not use
LookupFailed_WrongWord(data) == data.Header[1].status = "Error"

\* data["Header"][0]["status"] == "Failed"
LookupFailed(data) == data.Header[1].status = "Failed"

\* list_monitoring_sites, called by scrape for the next state of the list
ListMonitoringSites ==
    /\ pc = "region"
    /\ si <= Len(args.states)
    /\ LET state == args.states[si] IN
       IF args.pollutant \notin DOMAIN POLLUTANTS
       THEN UnknownPollutant
       ELSE \E data \in LookupResponses(state) :
            LET request == [Ev("lookup") EXCEPT
                              !.key = state,
                              !.url = [NoUrl EXCEPT
                                         !.poll = FirstField(POLLUTANTS[args.pollutant])],
                              !.status = data.Header[1].status,
                              !.n = Len(data.Data)]
            IN
            IF LookupFailed(data)
            THEN /\ log' = log \o <<request>> \o Sleep
                 /\ Raise("AqsApiError")
                 /\ UNCHANGED <<si, mi, year, sites>>
            ELSE /\ STATE_FIPS_CODES_REVERSED[state] \in DOMAIN STATE_FIPS_CODES
                 /\ log' = log \o <<request>> \o Sleep \o Echo("found")
                 /\ sites' = [i \in DOMAIN data.Data |-> AqsSite(data.Data[i])]
                 /\ Goto(AfterSite(si, 0, Len(data.Data)))
                 /\ error' = error
    /\ UNCHANGED <<args, scraper, dirExists, fs, fs0, today, run, output_file, url, rejects>>
    /\ UNCHANGED <<merge, other, registry>>

\* "{}_{}.json".format(site.site_id, now.strftime("%Y%m%d"))
SiteOutputFile(site) ==
    site.site_id \o <<"_">> \o Strftime(Now) \o <<".", "j", "s", "o", "n">>

\* scrape, for the next site of the state: the metadata file, then the year loop
WriteMetadata ==
    /\ pc = "monitor"
    /\ LET site == sites[mi]
           site_output_file == SiteOutputFile(site)
           reached == [Ev("site") EXCEPT
                         !.key = site.site_id, !.file = site_output_file,
                         !.existed = site_output_file \in DOMAIN fs]
       IN
       /\ log' = log
                 \o <<reached>>
                 \o (IF ~IsFile(site_output_file) THEN Echo("writing metadata") ELSE <<>>)
                 \o <<[reached EXCEPT !.op = "write_meta"]>>
       /\ fs' = (site_output_file :> [format |-> "json", complete |-> TRUE, data |-> site.json])
                @@ fs
    /\ IF args.start_date.year < args.end_date.year + 1
       THEN Goto([pc |-> "year", si |-> si, mi |-> mi, year |-> args.start_date.year])
       ELSE Goto(AfterSite(si, mi, Len(sites)))
    /\ UNCHANGED <<args, scraper, dirExists, fs0, today, run, sites, output_file, url, error,
                   rejects>>
    /\ UNCHANGED <<merge, other, registry>>

\* "{}_{}_{}_{}.csv.gz".format(site.site_id, pollutant, year, now.strftime("%Y%m%d"))
DataOutputFile(site, pollutant, y) ==
    site.site_id \o <<"_">> \o pollutant \o <<"_">> \o Str(y) \o <<"_">>
    \o Strftime(Now) \o <<".", "c", "s", "v", ".", "g", "z">>

\* get_data up to the test of os.path.isfile(output_file)
GetData ==
    /\ pc = "year"
    /\ LET site == sites[mi]
           file == DataOutputFile(site, args.pollutant, year)
           call == [Ev("get_data") EXCEPT
                      !.key = site.site_id, !.year = year, !.file = file,
                      !.existed = file \in DOMAIN fs]
       IN
       /\ STATE_FIPS_CODES_REVERSED[site.json.state_code] \in DOMAIN STATE_FIPS_CODES
       /\ output_file' = file
       /\ IF IsFile(file)
          THEN /\ log' = log \o <<call>> \o Echo("skipping")
               /\ Goto(AfterYear(year))
          ELSE /\ log' = log \o <<call>> \o Echo("downloading")
               /\ pc' = "get_data_url"
               /\ UNCHANGED <<si, mi, year>>
    /\ UNCHANGED <<args, scraper, dirExists, fs, fs0, today, run, sites, url, error, rejects>>
    /\ UNCHANGED <<merge, other, registry>>

\* no except clause: AirNowCgiError leaves get_data and scrape
ExceptAirNowCgiError_Uncaught(events) ==
    /\ log' = log \o events \o <<Ev("AirNowCgiError")>>
    /\ pc' = "aborted"
    /\ error' = "AirNowCgiError"
    /\ UNCHANGED <<si, mi, year>>

\* the except clause of get_data: AirNowCgiError is caught, a message, and
\* get_data returns
ExceptAirNowCgiError(events) ==
    /\ log' = log \o events \o <<Ev("AirNowCgiError")>> \o Echo("error")
    /\ Goto(AfterYear(year))
    /\ error' = error

\* get_data_url, called by get_data
GetDataUrl ==
    /\ pc = "get_data_url"
    /\ LET site == sites[mi]
           poll == POLLUTANTS[args.pollutant]
       IN
       \E soup \in BrokerResponses(poll, year, site.site_id) :
            LET request == [Ev("resolve") EXCEPT
                              !.key = site.site_id, !.year = year,
                              !.url = [NoUrl EXCEPT !.poll = poll],
                              !.status = IF soup.marker THEN "active" ELSE "no marker"]
            IN
            IF ~soup.marker
            THEN /\ rejects < MaxRejects
                 /\ rejects' = rejects + 1
                 /\ ExceptAirNowCgiError(<<request>> \o Sleep)
                 /\ url' = url
            ELSE /\ log' = log \o <<request>> \o Sleep
                 /\ url' = soup.href
                 /\ pc' = "download_file"
                 /\ UNCHANGED <<si, mi, year, rejects, error>>
    /\ UNCHANGED <<args, scraper, dirExists, fs, fs0, today, run, sites, output_file>>
    /\ UNCHANGED <<merge, other, registry>>

\* no call of raise_for_status: the body of any answer is saved
RaiseForStatus_Missing(response) == FALSE

\* response.raise_for_status(): a non-2xx status raises HTTPError
RaiseForStatus(response) == response = "http_error"

\* download_file(url, output_file, use_gzip), called by get_data, and the
\* rest of get_data
DownloadFile ==
    /\ pc = "download_file"
    /\ LET use_gzip == scraper.use_compression
           content(complete) ==
                [format |-> IF use_gzip THEN "gzip" ELSE "plain",
                 complete |-> complete, data |-> url]
       IN
       \E response \in DownloadResponses :
            LET request == [Ev("download") EXCEPT
                              !.key = sites[mi].site_id, !.year = year,
                              !.file = output_file, !.url = url,
                              !.existed = output_file \in DOMAIN fs,
                              !.status = response]
                written == [request EXCEPT !.op = "write_data"]
            IN
            IF RaiseForStatus(response)
            THEN /\ log' = log \o <<request>>
                 /\ Raise("HTTPError")
                 /\ UNCHANGED <<fs, si, mi, year>>
            ELSE IF response = "broken"
            THEN /\ log' = log \o <<request, written>>
                 /\ fs' = (output_file :> content(FALSE)) @@ fs
                 /\ Raise("ConnectionError")
                 /\ UNCHANGED <<si, mi, year>>
            ELSE /\ log' = log \o <<request, written>> \o Echo("success") \o Sleep
                 /\ fs' = (output_file :> content(TRUE)) @@ fs
                 /\ Goto(AfterYear(year))
                 /\ error' = error
    /\ UNCHANGED <<args, scraper, dirExists, fs0, today, run, sites, output_file, url, rejects>>
    /\ UNCHANGED <<merge, other, registry>>

\* scrape returns without the last message
Finished_Silent ==
    /\ pc = "region"
    /\ si > Len(args.states)
    /\ pc' = "done"
    /\ UNCHANGED <<args, scraper, dirExists, fs, fs0, today, run, si, sites, mi, year,
                   output_file, url, error, rejects, log>>
    /\ UNCHANGED <<merge, other, registry>>

\* the end of scrape: self.print("finished")
Finished ==
    /\ pc = "region"
    /\ si > Len(args.states)
    /\ log' = log \o Echo("finished")
    /\ pc' = "done"
    /\ UNCHANGED <<args, scraper, dirExists, fs, fs0, today, run, si, sites, mi, year,
                   output_file, url, error, rejects>>
    /\ UNCHANGED <<merge, other, registry>>

(* ---------------- environment ---------------- *)
\* midnight passes; the date is read where a file name is formatted
Tick ==
    /\ pc \in {"monitor", "year"}
    /\ today < MaxDay
    /\ today' = today + 1
    /\ UNCHANGED <<pc, args, scraper, dirExists, fs, fs0, run, si, sites, mi, year,
                   output_file, url, error, rejects, log>>
    /\ UNCHANGED <<merge, other, registry>>

\* scrape is invoked again with the same arguments on the same output directory
Rerun ==
    /\ pc \in {"done", "aborted"}
    /\ run < MaxRuns
    /\ ScrapeBegin
    /\ UNCHANGED <<args, scraper, dirExists, fs, today, rejects>>
    /\ UNCHANGED <<merge, other, registry>>

(* ---------------- join_data.py ---------------- *)
\* the characters of the file names in the order of their code points
CodePoints ==
    <<".">> \o DigitChars \o UpperLetters \o <<"_">> \o LowerLetters

Ord(c) == CHOOSE i \in DOMAIN CodePoints : CodePoints[i] = c

\* the order of Python strings
RECURSIVE StrLess(_, _)
StrLess(a, b) ==
    IF b = <<>> THEN FALSE
    ELSE IF a = <<>> THEN TRUE
    ELSE IF Head(a) = Head(b) THEN StrLess(Tail(a), Tail(b))
    ELSE Ord(Head(a)) < Ord(Head(b))

\* sorted(paths)
RECURSIVE Sorted(_)
Sorted(paths) ==
    IF paths = {} THEN <<>>
    ELSE LET first == CHOOSE x \in paths : \A y \in paths \ {x} : StrLess(x, y)
         IN  <<first>> \o Sorted(paths \ {first})

\* glob.glob(os.path.join(root, "*" + infix + "*")): the names that hold infix
Glob(directory, infix) ==
    {name \in DOMAIN directory :
        \E i \in 1 .. (Len(name) - Len(infix) + 1) :
            SubSeq(name, i, i + Len(infix) - 1) = infix}

\* the rows of the CSV file the AirNow site serves at a data link
Payload(link) ==
    <<[site |-> link.site, year |-> link.year, line |-> "a"],
      [site |-> link.site, year |-> link.year, line |-> "b"]>>

\* read_json raises when the file holds no JSON document
ReadJsonFails(content) == content.format # "json"

\* pandas.read_csv raises: a name that ends in .gz is decompressed, which
\* fails on a truncated gzip stream and on plain bytes
ReadCsvFails(name, content) ==
    /\ Len(name) >= 3
    /\ SubSeq(name, Len(name) - 2, Len(name)) = <<".", "g", "z">>
    /\ (content.format # "gzip" \/ ~content.complete)

\* pandas.read_csv: the rows of a downloaded file, or of a table to_csv wrote
ReadCsv(content) ==
    IF content.format = "csv" THEN content.data ELSE Payload(content.data)

\* pandas.concat: the rows of the tables one after the other
RECURSIVE Concat(_)
Concat(tables) ==
    IF tables = <<>> THEN <<>> ELSE Head(tables) \o Concat(Tail(tables))

SitesCsv == <<"s", "i", "t", "e", "s", ".", "c", "s", "v">>

DataCsv == <<"d", "a", "t", "a", ".", "c", "s", "v">>

\* DataFrame.to_csv(path, index=False)
ToCsv(table) == [format |-> "csv", complete |-> TRUE, data |-> table]

\* join_data(root, output_directory), root being the output directory of the
\* scraper and output_directory that directory or another one; a table
\* without columns, written by to_csv, may or may not be read back
JoinData ==
    /\ pc \in {"done", "aborted"}
    /\ merge.pc = "idle"
    /\ \E output_directory \in {"root", "elsewhere"}, empty_file_parses \in BOOLEAN :
        LET json_paths == Sorted(Glob(fs, <<".", "j", "s", "o", "n">>))
            records == [i \in DOMAIN json_paths |-> fs[json_paths[i]].data]
            root1 == IF output_directory = "root" THEN (SitesCsv :> ToCsv(records)) @@ fs ELSE fs
            elsewhere1 == IF output_directory = "root" THEN <<>> ELSE (SitesCsv :> ToCsv(records))
            csv_paths == Sorted(Glob(root1, <<".", "c", "s", "v">>))
            unreadable(path) ==
                \/ ReadCsvFails(path, root1[path])
                \/ root1[path] = ToCsv(<<>>) /\ ~empty_file_parses
            tables == [i \in DOMAIN csv_paths |-> ReadCsv(root1[csv_paths[i]])]
            started == [merge EXCEPT !.output_directory = output_directory, !.root = fs]
        IN
        IF \E i \in DOMAIN json_paths : ReadJsonFails(fs[json_paths[i]])
        THEN /\ merge' = [started EXCEPT !.pc = "failed", !.error = "JSONDecodeError"]
             /\ fs' = fs
        ELSE IF \E i \in DOMAIN csv_paths : unreadable(csv_paths[i])
        THEN /\ merge' = [started EXCEPT !.pc = "failed", !.error = "read_csv",
                                         !.elsewhere = elsewhere1]
             /\ fs' = root1
        ELSE IF csv_paths = <<>>
        THEN /\ merge' = [started EXCEPT !.pc = "failed", !.error = "ValueError",
                                         !.elsewhere = elsewhere1]
             /\ fs' = root1
        ELSE /\ merge' = [started EXCEPT
                            !.pc = "done",
                            !.elsewhere = IF output_directory = "root" THEN <<>>
                                          ELSE (DataCsv :> ToCsv(Concat(tables))) @@ elsewhere1]
             /\ fs' = IF output_directory = "root"
                      THEN (DataCsv :> ToCsv(Concat(tables))) @@ root1
                      ELSE root1
    /\ UNCHANGED <<pc, args, scraper, dirExists, fs0, today, run, si, sites, mi, year,
                   output_file, url, error, rejects, log, other, registry>>

(* ---------------- a second, concurrent invocation ---------------- *)
\* The same Scraper code run by a second process with the same arguments on
\* the same output directory: its locals are the fields of other, the files
\* and the clock are shared.
OtherGoto(pos) ==
    [other EXCEPT !.pc = pos.pc, !.si = pos.si, !.mi = pos.mi, !.year = pos.year]

\* loop control of scrape in the second invocation
OtherAfterYear(y) ==
    IF y + 1 < args.end_date.year + 1
    THEN [pc |-> "year", si |-> other.si, mi |-> other.mi, year |-> y + 1]
    ELSE AfterSite(other.si, other.mi, Len(other.sites))

\* the second invocation calls scrape while the first is inside scrape
OtherScrape ==
    /\ pc \notin {"main", "api", "rejected"}
    /\ other.pc = "idle"
    /\ other' = [other EXCEPT !.pc = "region", !.si = 1]
    /\ UNCHANGED <<pc, args, scraper, dirExists, fs, fs0, today, run, si, sites, mi, year,
                   output_file, url, error, rejects, log, merge, registry>>

\* list_monitoring_sites in the second invocation
OtherListMonitoringSites ==
    /\ other.pc = "region"
    /\ other.si <= Len(args.states)
    /\ LET state == args.states[other.si] IN
       IF args.pollutant \notin DOMAIN POLLUTANTS
       THEN other' = [OtherGoto(AfterSite(other.si, 0, 0)) EXCEPT !.sites = <<>>]
       ELSE \E data \in LookupResponses(state) :
            LET request == [Ev("lookup") EXCEPT
                              !.key = state,
                              !.url = [NoUrl EXCEPT
                                         !.poll = FirstField(POLLUTANTS[args.pollutant])],
                              !.status = data.Header[1].status,
                              !.n = Len(data.Data)]
            IN
            IF LookupFailed(data)
            THEN other' = [other EXCEPT
                             !.log = other.log \o <<request>> \o Sleep,
                             !.pc = "aborted",
                             !.error = "AqsApiError"]
            ELSE other' = [OtherGoto(AfterSite(other.si, 0, Len(data.Data))) EXCEPT
                             !.log = other.log \o <<request>> \o Sleep \o Echo("found"),
                             !.sites = [i \in DOMAIN data.Data |-> AqsSite(data.Data[i])]]
    /\ UNCHANGED <<pc, args, scraper, dirExists, fs, fs0, today, run, si, sites, mi, year,
                   output_file, url, error, rejects, log, merge, registry>>

\* the metadata file of the next site in the second invocation
OtherWriteMetadata ==
    /\ other.pc = "monitor"
    /\ LET site == other.sites[other.mi]
           site_output_file == SiteOutputFile(site)
           reached == [Ev("site") EXCEPT
                         !.key = site.site_id, !.file = site_output_file,
                         !.existed = site_output_file \in DOMAIN fs]
           pos == IF args.start_date.year < args.end_date.year + 1
                  THEN [pc |-> "year", si |-> other.si, mi |-> other.mi,
                        year |-> args.start_date.year]
                  ELSE AfterSite(other.si, other.mi, Len(other.sites))
       IN
       /\ other' = [OtherGoto(pos) EXCEPT
                      !.log = other.log
                              \o <<reached>>
                              \o (IF ~IsFile(site_output_file)
                                  THEN Echo("writing metadata") ELSE <<>>)
                              \o <<[reached EXCEPT !.op = "write_meta"]>>]
       /\ fs' = (site_output_file :> [format |-> "json", complete |-> TRUE, data |-> site.json])
                @@ fs
    /\ UNCHANGED <<pc, args, scraper, dirExists, fs0, today, run, si, sites, mi, year,
                   output_file, url, error, rejects, log, merge, registry>>

\* get_data up to the test of os.path.isfile in the second invocation
OtherGetData ==
    /\ other.pc = "year"
    /\ LET site == other.sites[other.mi]
           file == DataOutputFile(site, args.pollutant, other.year)
           call == [Ev("get_data") EXCEPT
                      !.key = site.site_id, !.year = other.year, !.file = file,
                      !.existed = file \in DOMAIN fs]
       IN
       IF IsFile(file)
       THEN other' = [OtherGoto(OtherAfterYear(other.year)) EXCEPT
                        !.output_file = file,
                        !.log = other.log \o <<call>> \o Echo("skipping")]
       ELSE other' = [other EXCEPT
                        !.output_file = file,
                        !.log = other.log \o <<call>> \o Echo("downloading"),
                        !.pc = "get_data_url"]
    /\ UNCHANGED <<pc, args, scraper, dirExists, fs, fs0, today, run, si, sites, mi, year,
                   output_file, url, error, rejects, log, merge, registry>>

\* get_data_url in the second invocation
OtherGetDataUrl ==
    /\ other.pc = "get_data_url"
    /\ LET site == other.sites[other.mi]
           poll == POLLUTANTS[args.pollutant]
       IN
       \E soup \in BrokerResponses(poll, other.year, site.site_id) :
            LET request == [Ev("resolve") EXCEPT
                              !.key = site.site_id, !.year = other.year,
                              !.url = [NoUrl EXCEPT !.poll = poll],
                              !.status = IF soup.marker THEN "active" ELSE "no marker"]
            IN
            IF ~soup.marker
            THEN /\ rejects < MaxRejects
                 /\ rejects' = rejects + 1
                 /\ other' = [OtherGoto(OtherAfterYear(other.year)) EXCEPT
                                !.log = other.log \o <<request>> \o Sleep
                                        \o <<Ev("AirNowCgiError")>> \o Echo("error")]
            ELSE /\ rejects' = rejects
                 /\ other' = [other EXCEPT
                                !.log = other.log \o <<request>> \o Sleep,
                                !.url = soup.href,
                                !.pc = "download_file"]
    /\ UNCHANGED <<pc, args, scraper, dirExists, fs, fs0, today, run, si, sites, mi, year,
                   output_file, url, error, log, merge, registry>>

\* download_file and the rest of get_data in the second invocation
OtherDownloadFile ==
    /\ other.pc = "download_file"
    /\ LET content(complete) ==
                [format |-> IF scraper.use_compression THEN "gzip" ELSE "plain",
                 complete |-> complete, data |-> other.url]
       IN
       \E response \in DownloadResponses :
            LET request == [Ev("download") EXCEPT
                              !.key = other.sites[other.mi].site_id, !.year = other.year,
                              !.file = other.output_file, !.url = other.url,
                              !.existed = other.output_file \in DOMAIN fs,
                              !.status = response]
                written == [request EXCEPT !.op = "write_data"]
            IN
            IF RaiseForStatus(response)
            THEN /\ other' = [other EXCEPT
                                !.log = other.log \o <<request>>,
                                !.pc = "aborted", !.error = "HTTPError"]
                 /\ fs' = fs
            ELSE IF response = "broken"
            THEN /\ other' = [other EXCEPT
                                !.log = other.log \o <<request, written>>,
                                !.pc = "aborted", !.error = "ConnectionError"]
                 /\ fs' = (other.output_file :> content(FALSE)) @@ fs
            ELSE /\ other' = [OtherGoto(OtherAfterYear(other.year)) EXCEPT
                                !.log = other.log \o <<request, written>>
                                        \o Echo("success") \o Sleep]
                 /\ fs' = (other.output_file :> content(TRUE)) @@ fs
    /\ UNCHANGED <<pc, args, scraper, dirExists, fs0, today, run, si, sites, mi, year,
                   output_file, url, error, rejects, log, merge, registry>>

\* the end of scrape in the second invocation
OtherFinished ==
    /\ other.pc = "region"
    /\ other.si > Len(args.states)
    /\ other' = [other EXCEPT !.pc = "done", !.log = other.log \o Echo("finished")]
    /\ UNCHANGED <<pc, args, scraper, dirExists, fs, fs0, today, run, si, sites, mi, year,
                   output_file, url, error, rejects, log, merge, registry>>

\* two invocations of scrape through the class whose steps interleave
NextConcurrent ==
    \/ Construct
    \/ ListMonitoringSites
    \/ WriteMetadata
    \/ GetData
    \/ GetDataUrl
    \/ DownloadFile
    \/ Finished
    \/ OtherScrape
    \/ OtherListMonitoringSites
    \/ OtherWriteMetadata
    \/ OtherGetData
    \/ OtherGetDataUrl
    \/ OtherDownloadFile
    \/ OtherFinished

\* both invocations are direct calls of scrape for at most one state
InitConcurrent ==
    /\ Init
    /\ pc = "api"
    /\ Len(args.states) <= 1

SpecConcurrent == InitConcurrent /\ [][NextConcurrent]_vars

(* ---------------- the tables of the module ---------------- *)
\* str.split(","): the fields between the commas
RECURSIVE Split(_)
Split(str) ==
    IF \E i \in DOMAIN str : str[i] = ","
    THEN <<FirstField(str)>> \o Split(SubSeq(str, Len(FirstField(str)) + 2, Len(str)))
    ELSE <<str>>

KeyError == <<"K", "e", "y", "E", "r", "r", "o", "r">>

\* table[key] of a Python dict
GetItem(table, key) == IF key \in DOMAIN table THEN table[key] ELSE KeyError

\* the scraper is not started; an abbreviation, a code or a pollutant name
\* of the tables is looked up
InitRegistry ==
    /\ pc = "registry"
    /\ args = <<>>
    /\ scraper = [constructed |-> FALSE, verbose |-> FALSE, use_compression |-> FALSE]
    /\ dirExists = FALSE
    /\ fs = <<>>
    /\ fs0 = <<>>
    /\ today = 1
    /\ run = 0
    /\ si = 0
    /\ sites = <<>>
    /\ mi = 0
    /\ year = 0
    /\ output_file = <<>>
    /\ url = NoUrl
    /\ error = ""
    /\ rejects = 0
    /\ log = <<>>
    /\ merge = NoMerge
    /\ other = NoOther
    /\ \E given \in DOMAIN STATE_FIPS_CODES \cup DOMAIN STATE_FIPS_CODES_REVERSED
                    \cup DOMAIN POLLUTANTS :
        /\ registry \in {[NoLookup EXCEPT !.pc = kind, !.given = given] :
                            kind \in {"abbreviation", "code", "pollutant"}}
        /\ registry.pc = "abbreviation" => given \in DOMAIN STATE_FIPS_CODES
        /\ registry.pc = "code" => given \in DOMAIN STATE_FIPS_CODES_REVERSED
        /\ registry.pc = "pollutant" => given \in DOMAIN POLLUTANTS

\* STATE_FIPS_CODES[state_normalized], on the abbreviation given or on the
\* abbreviation found for a code
RegionCodeFor ==
    /\ \/ /\ registry.pc = "abbreviation"
          /\ registry' = [registry EXCEPT
                            !.pc = "abbreviation to code",
                            !.found = GetItem(STATE_FIPS_CODES, registry.given)]
       \/ /\ registry.pc = "code to abbreviation"
          /\ registry' = [registry EXCEPT
                            !.pc = "code and back",
                            !.back = GetItem(STATE_FIPS_CODES, registry.found)]
    /\ UNCHANGED <<pc, args, scraper, dirExists, fs, fs0, today, run, si, sites, mi, year,
                   output_file, url, error, rejects, log, merge, other>>

\* STATE_FIPS_CODES_REVERSED[state], on the code given or on the code found
\* for an abbreviation
AbbreviationFor ==
    /\ \/ /\ registry.pc = "code"
          /\ registry' = [registry EXCEPT
                            !.pc = "code to abbreviation",
                            !.found = GetItem(STATE_FIPS_CODES_REVERSED, registry.given)]
       \/ /\ registry.pc = "abbreviation to code"
          /\ registry' = [registry EXCEPT
                            !.pc = "abbreviation and back",
                            !.back = GetItem(STATE_FIPS_CODES_REVERSED, registry.found)]
    /\ UNCHANGED <<pc, args, scraper, dirExists, fs, fs0, today, run, si, sites, mi, year,
                   output_file, url, error, rejects, log, merge, other>>

\* POLLUTANTS[pollutant].split(","): the codes of a pollutant
CodesFor ==
    /\ registry.pc = "pollutant"
    /\ registry' = [registry EXCEPT
                      !.pc = "codes",
                      !.found = IF registry.given \in DOMAIN POLLUTANTS
                                THEN Split(POLLUTANTS[registry.given])
                                ELSE KeyError]
    /\ UNCHANGED <<pc, args, scraper, dirExists, fs, fs0, today, run, si, sites, mi, year,
                   output_file, url, error, rejects, log, merge, other>>

NextRegistry ==
    \/ RegionCodeFor
    \/ AbbreviationFor
    \/ CodesFor

SpecRegistry == InitRegistry /\ [][NextRegistry]_vars

\* one invocation on one day
Next ==
    \/ Main
    \/ Construct
    \/ ListMonitoringSites
    \/ WriteMetadata
    \/ GetData
    \/ GetDataUrl
    \/ DownloadFile
    \/ Finished

Spec == Init /\ [][Next]_vars

\* one invocation during which midnight may pass
NextMidnight ==
    \/ Main
    \/ Construct
    \/ ListMonitoringSites
    \/ WriteMetadata
    \/ GetData
    \/ GetDataUrl
    \/ DownloadFile
    \/ Finished
    \/ Tick

SpecMidnight == Init /\ [][NextMidnight]_vars

\* repeated invocations on one day
NextRerun ==
    \/ Main
    \/ Construct
    \/ ListMonitoringSites
    \/ WriteMetadata
    \/ GetData
    \/ GetDataUrl
    \/ DownloadFile
    \/ Finished
    \/ Rerun

SpecRerun == Init /\ [][NextRerun]_vars

\* one invocation, after which the data is joined
NextJoin ==
    \/ Main
    \/ Construct
    \/ ListMonitoringSites
    \/ WriteMetadata
    \/ GetData
    \/ GetDataUrl
    \/ DownloadFile
    \/ Finished
    \/ JoinData

SpecJoin == Init /\ [][NextJoin]_vars

\* one invocation in which the program keeps running and every call returns
SpecFair == Init /\ [][Next]_vars /\ WF_vars(Next)

(* ---------------- reading the log ---------------- *)
Network == {"lookup", "resolve", "download"}

Writes == {"write_meta", "write_data"}

\* the entries of the log with an op in S
Entries(S) == {i \in DOMAIN log : log[i].op \in S}

\* the first entry after i with an op in S, 0 if there is none
NextEntry(i, S) ==
    IF \E k \in Entries(S) : k > i
    THEN CHOOSE k \in Entries(S) : k > i /\ \A j \in Entries(S) : j > i => k <= j
    ELSE 0

\* the last entry before i with an op in S, 0 if there is none
PrevEntry(i, S) ==
    IF \E k \in Entries(S) : k < i
    THEN CHOOSE k \in Entries(S) : k < i /\ \A j \in Entries(S) : j < i => j <= k
    ELSE 0

\* the entries a step appended to the log
Appended == {i \in DOMAIN log' : i > Len(log)}

EndsWith(str, suffix) ==
    /\ Len(str) >= Len(suffix)
    /\ SubSeq(str, Len(str) - Len(suffix) + 1, Len(str)) = suffix

StartsWith(str, prefix) ==
    /\ Len(str) >= Len(prefix)
    /\ SubSeq(str, 1, Len(prefix)) = prefix

\* number of years of range(start_date.year, end_date.year + 1)
YearsInRange ==
    IF args.end_date.year >= args.start_date.year
    THEN args.end_date.year - args.start_date.year + 1
    ELSE 0

RECURSIVE SumN(_)
SumN(S) == IF S = {} THEN 0 ELSE LET i == CHOOSE i \in S : TRUE IN log[i].n + SumN(S \ {i})

(* ---------------- C1 ---------------- *)
\* every file the run reached (metadata file of a site, data file of a
\* task) existed, completely written, when scrape was invoked
ProducedFilesExisted ==
    \A i \in Entries({"site", "get_data"}) :
        log[i].file \in DOMAIN fs0 /\ fs0[log[i].file].complete

\* C1: a re-invocation of scrape (same day, same arguments) that finds every
\* metadata file and every data file it would produce issues no network
\* request and writes no file.
C1_RerunDoesNothing ==
    (/\ pc = "done"
     /\ run > 1
     /\ Entries({"get_data"}) # {}
     /\ ProducedFilesExisted)
    => Entries(Network \cup Writes) = {}

(* ---------------- C2 ---------------- *)
\* C2: when get_data is reached for a task whose data file exists, no
\* link-resolution request and no download request is issued for the task,
\* the run goes on with the next task, and the files are left as they are.
C2_ExistingDataFileIsSkipped ==
    [][(/\ pc = "year"
        /\ DataOutputFile(sites[mi], args.pollutant, year) \in DOMAIN fs)
       => (/\ fs' = fs
           /\ pc' \in {"year", "monitor", "region"}
           /\ \A i \in Appended : log'[i].op \notin (Network \cup Writes))]_vars

\* a task was reached whose data file existed, and the run went on
C2_Witness ==
    \E i \in Entries({"get_data"}) :
        /\ log[i].existed
        /\ log[i].file \in DOMAIN fs0
        /\ pc \in {"year", "monitor", "region", "done"}

(* ---------------- C3 ---------------- *)
\* C3: the metadata file of a site is written only when it was absent; a
\* metadata file that exists when the site is reached is not written.
C3_ExistingMetadataIsNotWritten ==
    \A i \in Entries({"write_meta"}) : ~log[i].existed

(* ---------------- C4 ---------------- *)
\* the part of the log that belongs to the task of entry i: up to the next
\* task, site or state
TaskEnd(i) ==
    LET nx == NextEntry(i, {"get_data", "site", "lookup"})
    IN  IF nx = 0 THEN Len(log) ELSE nx - 1

\* C4: an answer of the AirNow script without the marker phrase raises
\* AirNowCgiError in get_data_url; no download is issued and no data file is
\* created for the task, the error does not end the run, and a run that
\* ends normally has processed every year of every site of every state.
C4_ResolverFailureIsSoft ==
    /\ error # "AirNowCgiError"
    /\ \A i \in Entries({"resolve"}) :
        log[i].status = "no marker" =>
            LET task == PrevEntry(i, {"get_data"}) IN
            /\ i + 2 <= Len(log)
            /\ log[i + 2].op = "AirNowCgiError"
            /\ \A k \in (i + 1) .. TaskEnd(i) : log[k].op \notin {"download", "write_data"}
            /\ (\A k \in Entries({"get_data"}) : k > i => log[k].file # log[task].file)
                    => log[task].file \notin DOMAIN fs
            /\ NextEntry(i, {"get_data", "site", "lookup"}) = 0
                    => pc \in {"year", "monitor", "region", "done"}
    /\ (pc = "done" /\ args.pollutant \in DOMAIN POLLUTANTS) =>
            /\ Cardinality(Entries({"lookup"})) = Len(args.states)
            /\ Cardinality(Entries({"site"})) = SumN(Entries({"lookup"}))
            /\ Cardinality(Entries({"get_data"})) = Cardinality(Entries({"site"})) * YearsInRange

\* a run ended normally after a resolver failure, and a later year of the
\* same site, a later site and a later state were processed
C4_Witness ==
    /\ pc = "done"
    /\ \E i \in Entries({"AirNowCgiError"}) :
        LET task == PrevEntry(i, {"get_data"}) IN
        /\ \E k \in Entries({"get_data"}) :
                k > i /\ log[k].key = log[task].key /\ log[k].year > log[task].year
        /\ \E k \in Entries({"site"}) : k > i
        /\ \E k \in Entries({"lookup"}) : k > i

(* ---------------- C5 ---------------- *)
\* C5: a lookup answer with Header[0].status "Failed" raises AqsApiError,
\* which nothing catches: no site is constructed from the answer, the run
\* ends there, no later state is looked up, nothing is written after it and
\* "finished" is not printed.
C5_LookupFailureEndsRun ==
    /\ \A i \in Entries({"lookup"}) :
        log[i].status = "Failed" =>
            /\ pc = "aborted"
            /\ error = "AqsApiError"
            /\ i = Len(log) - 1
            /\ log[Len(log)].op = "sleep"
            /\ log[i].key = args.states[si]
    /\ error = "AqsApiError" =>
            /\ pc = "aborted"
            /\ Len(log) >= 2
            /\ log[Len(log) - 1].op = "lookup"
            /\ log[Len(log) - 1].status = "Failed"
            /\ Entries({"finished"}) = {}
            /\ Cardinality(Entries({"lookup"})) = si
            /\ Cardinality(Entries({"site"})) = SumN(Entries({"lookup"}) \ {Len(log) - 1})
            /\ \A j \in DOMAIN sites : si > 1 /\ sites[j].json.state_code = args.states[si - 1]

\* a failed lookup whose answer carried sites, with a later state left
C5_Witness ==
    /\ error = "AqsApiError"
    /\ si < Len(args.states)
    /\ log[Len(log) - 1].n > 0

(* ---------------- C6 ---------------- *)
\* C6: a non-2xx answer to the download request raises HTTPError, which
\* neither get_data nor scrape catches: the run ends at that request, no
\* file is written for the task, no later task is processed and "finished"
\* is not printed.
C6_HttpErrorEndsRun ==
    /\ \A i \in Entries({"download"}) :
        log[i].status = "http_error" =>
            /\ i = Len(log)
            /\ pc = "aborted"
            /\ error = "HTTPError"
            /\ log[i].file \notin DOMAIN fs
    /\ error = "HTTPError" =>
            /\ pc = "aborted"
            /\ log # <<>>
            /\ log[Len(log)].op = "download"
            /\ log[Len(log)].status = "http_error"
            /\ Entries({"finished"}) = {}

\* a download ended with HTTPError while a later year, a later site and a
\* later state were left
C6_Witness ==
    /\ error = "HTTPError"
    /\ year < args.end_date.year
    /\ mi < Len(sites)
    /\ si < Len(args.states)

(* ---------------- C7 ---------------- *)
DotCsv == <<".", "c", "s", "v">>

DotCsvGz == <<".", "c", "s", "v", ".", "g", "z">>

\* C7: a data file is named {site}_{pollutant}_{year}_{YYYYMMDD} with the
\* extension .csv.gz, written through gzip, exactly when use_compression is
\* true, and with the extension .csv when it is false.
C7_ExtensionReflectsCompression ==
    \A i \in Entries({"write_data"}) :
        LET stem == log[i].key \o <<"_">> \o args.pollutant \o <<"_">> \o Str(log[i].year)
                    \o <<"_">> \o Strftime(Now)
        IN
        IF scraper.use_compression
        THEN log[i].file = stem \o DotCsvGz /\ fs[log[i].file].format = "gzip"
        ELSE log[i].file = stem \o DotCsv /\ fs[log[i].file].format = "plain"

(* ---------------- C8 ---------------- *)
\* the command line has an invalid pollutant, a date that cannot be parsed
\* or a state that is neither a FIPS code nor an abbreviation
InvalidCommandLine ==
    \/ Upper(args.pollutant) \notin DOMAIN POLLUTANTS
    \/ \E d \in {args.start_date, args.end_date} : d # TodayArg /\ ~IsIsoDate(d)
    \/ \E i \in DOMAIN args.states :
        /\ \A key \in DOMAIN STATE_FIPS_CODES : STATE_FIPS_CODES[key] # args.states[i]
        /\ Upper(args.states[i]) \notin DOMAIN STATE_FIPS_CODES

\* C8: main ends with an exception on such a command line before the
\* Scraper is constructed: no request was issued, no output directory and
\* no file was created.
C8_InvalidArgumentsAbortEarly ==
    [][(pc = "main" /\ InvalidCommandLine)
       => (/\ pc' = "rejected"
           /\ error' # ""
           /\ ~scraper'.constructed
           /\ ~dirExists'
           /\ fs' = <<>>
           /\ log' = <<>>
           /\ run' = 0)]_vars

\* main rejected a state after the pollutant and the dates passed
C8_Witness ==
    /\ pc = "rejected"
    /\ error = "could not understand state"
    /\ Len(args.states) > 1

(* ---------------- C9 ---------------- *)
\* C9: with a pollutant that is no key of POLLUTANTS, list_monitoring_sites
\* returns an empty list without a request or a pause, so the run visits
\* every state, writes no file and ends normally.
C9_UnknownPollutantScrapesNothing ==
    (run > 0 /\ args.pollutant \notin DOMAIN POLLUTANTS) =>
        /\ \A i \in DOMAIN log : log[i].op = "finished"
        /\ fs = fs0
        /\ sites = <<>>
        /\ error = ""
        /\ pc \in {"region", "done"}
        /\ si <= Len(args.states) + 1
        /\ pc = "done" => si = Len(args.states) + 1

\* a run over several states with an unknown pollutant ended normally
C9_Witness ==
    /\ pc = "done"
    /\ args.pollutant \notin DOMAIN POLLUTANTS
    /\ Len(args.states) > 1
    /\ si = Len(args.states) + 1

(* ---------------- C10 ---------------- *)
\* the files created since scrape was invoked
NewFiles == DOMAIN fs \ DOMAIN fs0

IsMetadataFileOf(file, site_id) ==
    StartsWith(file, site_id \o <<"_">>) /\ EndsWith(file, <<".", "j", "s", "o", "n">>)

IsDataFileOf(file, site_id, y) ==
    StartsWith(file, site_id \o <<"_">> \o args.pollutant \o <<"_">> \o Str(y) \o <<"_">>)

\* C10: for every site a lookup returned, get_data is called once for each
\* year from the start year to the end year, in ascending order, and for no
\* other year (not at all when the start year is after the end year); the
\* run creates at most one metadata file per site returned and at most one
\* data file per call of get_data.
C10_OneCallPerYearInRange ==
    /\ \A i \in Entries({"get_data"}) :
        LET p == PrevEntry(i, {"site", "get_data"}) IN
        /\ p # 0
        /\ log[i].key = log[p].key
        /\ log[i].year = IF log[p].op = "site"
                         THEN args.start_date.year
                         ELSE log[p].year + 1
        /\ log[i].year <= args.end_date.year
    /\ \A i \in Entries({"site", "get_data"}) :
        LET nx == NextEntry(i, {"site", "get_data", "lookup"}) IN
        (\/ nx # 0 /\ log[nx].op # "get_data"
         \/ nx = 0 /\ pc \in {"monitor", "region", "done"})
        => IF log[i].op = "site"
           THEN args.start_date.year > args.end_date.year
           ELSE log[i].year = args.end_date.year
    /\ \A i \in Entries({"site"}) :
        Cardinality({f \in NewFiles : IsMetadataFileOf(f, log[i].key)})
            <= Cardinality({k \in Entries({"site"}) : log[k].key = log[i].key})
    /\ \A i \in Entries({"get_data"}) :
        Cardinality({f \in NewFiles : IsDataFileOf(f, log[i].key, log[i].year)})
            <= Cardinality({k \in Entries({"get_data"}) :
                                log[k].key = log[i].key /\ log[k].year = log[i].year})
    /\ \A f \in NewFiles :
        \E i \in Entries({"site", "get_data"}) : log[i].file = f

\* a run ended normally after the calls for two years of a site, with
\* midnight passing between them
C10_Witness ==
    /\ pc = "done"
    /\ \E i, k \in Entries({"get_data"}) :
        /\ i < k
        /\ log[i].key = log[k].key
        /\ log[i].year = args.start_date.year
        /\ log[k].year = args.end_date.year
        /\ log[i].file \in NewFiles
        /\ log[k].file \in NewFiles
        /\ ~EndsWith(log[i].file, SubSeq(log[k].file, Len(log[k].file) - 14, Len(log[k].file)))

(* ---------------- C11 ---------------- *)
\* the program has stopped: scrape returned, or an exception ended it
Stopped == pc \in {"done", "aborted", "rejected"}

\* a lookup answered "Failed", or a download was answered with a non-2xx
\* status or broke in the middle
Failures ==
    {i \in Entries({"lookup"}) : log[i].status = "Failed"}
    \cup {i \in Entries({"download"}) : log[i].status # "complete"}

\* every task was processed: one lookup per state, one visit per site
\* returned, one get_data per site and year, each of which ended
AllTasksProcessed ==
    /\ si = Len(args.states) + 1
    /\ args.pollutant \in DOMAIN POLLUTANTS =>
        /\ Cardinality(Entries({"lookup"})) = Len(args.states)
        /\ Cardinality(Entries({"site"})) = SumN(Entries({"lookup"}))
        /\ Cardinality(Entries({"get_data"})) = Cardinality(Entries({"site"})) * YearsInRange
        /\ \A i \in Entries({"get_data"}) :
            \/ log[i].existed
            \/ \E k \in (i + 1) .. TaskEnd(i) : log[k].op \in {"write_data", "AirNowCgiError"}

OutputDirectory == IF merge.output_directory = "root" THEN fs ELSE merge.elsewhere

\* the metadata files and the data files the scraper left under the root
MetadataFiles == {f \in DOMAIN merge.root : merge.root[f].format = "json"}

DataFiles == {f \in DOMAIN merge.root : merge.root[f].format \in {"gzip", "plain"}}

\* the rows of the data files under the root, in the order of their paths
RowsOfDataFiles ==
    LET paths == Sorted(DataFiles)
    IN  Concat([i \in DOMAIN paths |-> Payload(merge.root[paths[i]].data)])

\* C12: over a root that holds metadata files and readable data files,
\* whatever the output directory, join_data writes sites.csv with one row
\* per metadata file and data.csv with exactly the rows of the data files,
\* in the order of their paths, and with the rows of no other file.
C12_JoinedTablesHoldTheInputs ==
    (/\ merge.pc # "idle"
     /\ DataFiles # {}
     /\ \A f \in DataFiles : ~ReadCsvFails(f, merge.root[f]))
    => /\ merge.pc = "done"
       /\ SitesCsv \in DOMAIN OutputDirectory
       /\ Len(OutputDirectory[SitesCsv].data) = Cardinality(MetadataFiles)
       /\ DataCsv \in DOMAIN OutputDirectory
       /\ OutputDirectory[DataCsv].data = RowsOfDataFiles

(* ---------------- C13 ---------------- *)
\* C13: every abbreviation of STATE_FIPS_CODES is found again through its
\* code, every code of STATE_FIPS_CODES_REVERSED is found again through its
\* abbreviation, no two abbreviations share a code, and every name of
\* POLLUTANTS has a non-empty list of non-empty codes.
C13_RegistryIsBijection ==
    /\ registry.pc = "abbreviation to code" =>
            /\ registry.found # KeyError
            /\ \A a \in DOMAIN STATE_FIPS_CODES :
                a # registry.given => STATE_FIPS_CODES[a] # registry.found
    /\ registry.pc = "abbreviation and back" => registry.back = registry.given
    /\ registry.pc = "code to abbreviation" => registry.found # KeyError
    /\ registry.pc = "code and back" => registry.back = registry.given
    /\ registry.pc = "codes" =>
            /\ registry.found # KeyError
            /\ registry.found # <<>>
            /\ \A i \in DOMAIN registry.found : registry.found[i] # <<>>

\* the abbreviation WY was found again through its code 56, the last pair
\* of the table
C13_Witness ==
    /\ registry.pc = "abbreviation and back"
    /\ registry.given = <<"W", "Y">>
    /\ registry.found = <<"5", "6">>
    /\ registry.back = <<"W", "Y">>

(* ---------------- C14 ---------------- *)
\* every lookup request and every link-resolution request is directly
\* followed by one pause, not by two
PauseAfterEachQuery ==
    \A i \in Entries({"lookup", "resolve"}) :
        /\ i < Len(log)
        /\ log[i + 1].op = "sleep"
        /\ i + 2 <= Len(log) => log[i + 2].op # "sleep"

\* C14 as stated: the pauses of a run are the ones that directly follow a
\* lookup request or a link-resolution request; each such request is
\* followed by exactly one pause and no other step pauses.
C14_PausesOnlyAfterQueries ==
    /\ PauseAfterEachQuery
    /\ \A i \in Entries({"sleep"}) : i > 1 /\ log[i - 1].op \in {"lookup", "resolve"}

\* the entry of the step that came before the pause i: the message
\* "success" of a verbose Scraper is no step
StepBefore(i) == IF i > 1 /\ log[i - 1].op = "success" THEN i - 2 ELSE i - 1

\* the entry of the pause that follows the write i, 0 if there is none
PauseAfterWrite(i) ==
    IF i + 1 <= Len(log) /\ log[i + 1].op = "sleep" THEN i + 1
    ELSE IF i + 2 <= Len(log) /\ log[i + 1].op = "success" /\ log[i + 2].op = "sleep"
    THEN i + 2
    ELSE 0

\* C14 as amended: the pauses of a run are the one after each lookup
\* request, the one after each link-resolution request and the one after
\* each download that wrote its file completely; each of these is followed
\* by exactly one pause, and no other step (metadata write, skip of an
\* existing file, failed download) pauses.
C14_PausesFollowRequests ==
    /\ PauseAfterEachQuery
    /\ \A i \in Entries({"sleep"}) :
        /\ StepBefore(i) > 0
        /\ \/ log[i - 1].op \in {"lookup", "resolve"}
           \/ /\ log[StepBefore(i)].op = "write_data"
              /\ log[StepBefore(i)].status = "complete"
    /\ \A i \in Entries({"write_data"}) :
        IF log[i].status = "complete"
        THEN /\ PauseAfterWrite(i) # 0
             /\ PauseAfterWrite(i) < Len(log) => log[PauseAfterWrite(i) + 1].op # "sleep"
        ELSE i = Len(log)
    /\ \A i \in Entries({"download"}) : log[i].status = "http_error" => i = Len(log)

\* a run ended normally after a lookup, a metadata write, a resolution, a
\* complete download with its pause, and a skip of an existing file
C14_Witness ==
    /\ pc = "done"
    /\ \E i \in Entries({"sleep"}) : log[StepBefore(i)].op = "write_data"
    /\ \E i \in Entries({"sleep"}) : log[i - 1].op = "lookup"
    /\ \E i \in Entries({"sleep"}) : log[i - 1].op = "resolve"
    /\ \E i \in Entries({"get_data"}) : log[i].existed
    /\ Entries({"write_meta"}) # {}

(* ---------------- C15 ---------------- *)
\* the metadata file of a site was written before entry i
MetadataWrittenBefore(i) ==
    \E k \in Entries({"write_meta"}) : k < i /\ log[k].key = log[i].key

\* C15: a download request is issued only for a task whose data file was
\* absent when get_data tested it, after the AirNow script answered the
\* request for that same site and year with a data link, and for exactly
\* that link and into the file get_data tested; no download follows an
\* answer without the marker, and the metadata file of the site is written
\* before any resolution or download request for the site.
C15_DownloadFollowsCheckAndResolution ==
    /\ \A i \in Entries({"download"}) :
        LET task == PrevEntry(i, {"get_data"})
            answer == PrevEntry(i, {"resolve"})
        IN
        /\ task # 0
        /\ ~log[task].existed
        /\ log[task].key = log[i].key
        /\ log[task].year = log[i].year
        /\ log[task].file = log[i].file
        /\ answer > task
        /\ log[answer].status = "active"
        /\ log[answer].key = log[i].key
        /\ log[answer].year = log[i].year
        /\ log[i].url = DataLink(log[answer].url.poll, log[answer].year, log[answer].key)
        /\ Cardinality({k \in Entries({"download", "resolve"}) : task < k /\ k <= i}) = 2
    /\ \A i \in Entries({"resolve"}) :
        LET task == PrevEntry(i, {"get_data"}) IN
        /\ task # 0
        /\ ~log[task].existed
        /\ log[task].key = log[i].key
        /\ log[task].year = log[i].year
        /\ log[i].status = "no marker" =>
                (i + 3 <= Len(log) => log[i + 3].op # "download")
    /\ \A i \in Entries({"resolve", "download"}) : MetadataWrittenBefore(i)

\* a run ended normally in which a file was downloaded for one task, the
\* resolution failed for another and a third was skipped
C15_Witness ==
    /\ pc = "done"
    /\ Cardinality(Entries({"download"})) > 1
    /\ \E i \in Entries({"resolve"}) : log[i].status = "no marker"
    /\ \E i \in Entries({"get_data"}) : log[i].existed

(* ---------------- C16 ---------------- *)
\* the download requests of a log for a file
DownloadsOf(l, file) == {i \in DOMAIN l : l[i].op = "download" /\ l[i].file = file}

\* the calls of get_data of a log that found the file absent
AbsentChecksOf(l, file) ==
    {i \in DOMAIN l : l[i].op = "get_data" /\ l[i].file = file /\ ~l[i].existed}

\* C16: each invocation by itself issues at most one download request for a
\* data file path, and each of its downloads follows an existence check of
\* its own that found the file absent; so a path is downloaded twice only by
\* two invocations that both passed the check before either created the file.
C16_OneDownloadPerPathAndInvocation ==
    \A l \in {log, other.log} :
        \A i \in DOMAIN l :
            l[i].op = "download" =>
                /\ DownloadsOf(l, l[i].file) = {i}
                /\ \E k \in AbsentChecksOf(l, l[i].file) : k < i

\* the double download: both invocations found the same data file absent,
\* both resolved its link and both wrote the file completely
C16_Witness ==
    \E i \in Entries({"write_data"}) :
        /\ log[i].status = "complete"
        /\ \E k \in DOMAIN other.log :
            /\ other.log[k].op = "write_data"
            /\ other.log[k].status = "complete"
            /\ other.log[k].file = log[i].file
        /\ \E k \in DOMAIN other.log :
            /\ other.log[k].op = "resolve"
            /\ other.log[k].key = log[i].key
            /\ other.log[k].year = log[i].year
        /\ pc = "done"
        /\ other.pc = "done"

(* ---------------- C17 ---------------- *)
\* C17: in one run of scrape a pause lies between any two consecutive
\* network requests (lookup, link resolution, download), whatever lies
\* between them: a lookup without sites, a resolver failure, skipped tasks.
C17_PauseBetweenRequests ==
    \A i \in Entries(Network) :
        LET nx == NextEntry(i, Network) IN
        nx # 0 => \E k \in Entries({"sleep"}) : i < k /\ k < nx

\* a run ended normally in which a lookup without sites, a resolver
\* failure, a complete download and a skipped task were each followed by a
\* later request
C17_Witness ==
    /\ pc = "done"
    /\ \E i \in Entries({"lookup"}) : log[i].n = 0 /\ NextEntry(i, Network) # 0
    /\ \E i \in Entries({"AirNowCgiError"}) : NextEntry(i, Network) # 0
    /\ \E i \in Entries({"write_data"}) : NextEntry(i, Network) # 0
    /\ \E i \in Entries({"get_data"}) : log[i].existed /\ NextEntry(i, Network) # 0

(* ---------------- C18 ---------------- *)
\* the data files of the output directory
DataFilesPresent == {f \in DOMAIN fs : fs[f].format \in {"gzip", "plain"}}

\* C18: after a run, completed or aborted, every data file of the output
\* directory holds the complete payload of a download, and a run skips no
\* task whose file is incomplete.
C18_DataFilesAreComplete ==
    /\ pc \in {"done", "aborted"} => \A f \in DataFilesPresent : fs[f].complete
    /\ \A i \in Entries({"get_data"}) : log[i].existed => fs[log[i].file].complete

(* ---------------- C19 ---------------- *)
\* C19: a command line whose pollutant is, letter for letter, a key of
\* POLLUTANTS is not rejected as an invalid pollutant, and when main goes on
\* to scrape, the pollutant it passes is a key of POLLUTANTS.
C19_RegistryNamesAreAccepted ==
    [][(pc = "main" /\ args.pollutant \in DOMAIN POLLUTANTS)
       => (/\ error' # "invalid pollutant"
           /\ pc' = "region" => args'.pollutant \in DOMAIN POLLUTANTS)]_vars

(* ---------------- C20 ---------------- *)
\* the YYYYMMDD part of the name of a metadata file or a data file
DateStamp(file) ==
    IF EndsWith(file, <<".", "j", "s", "o", "n">>)
    THEN SubSeq(file, Len(file) - 12, Len(file) - 5)
    ELSE SubSeq(file, Len(file) - 14, Len(file) - 7)

\* C20: the files written during one run of scrape, metadata files and data
\* files alike, all carry the same date stamp in their names, and so do the
\* files whose existence the run tests.
C20_OneDateStampPerRun ==
    \A i, k \in Entries(Writes \cup {"site", "get_data"}) :
        DateStamp(log[i].file) = DateStamp(log[k].file)

====
